---- MODULE Spec2Model ----
(***************************************************************************)
(* Model of src/github.go: the client, fetchGitHubResponse and client.do   *)
(* with the retry loop of backoff.Retry that do drives (github.go:126).    *)
(* Durations and the clock are in milliseconds.                            *)
(***************************************************************************)
EXTENDS Integers, Sequences, FiniteSets, TLC

VARIABLES
    url,              \* client.url
    Token,            \* client.Token
    Method,           \* client.Method
    pc,               \* position of the call: idle, op, retry, wait, decode, done
    viaFetch,         \* TRUE when do was entered through fetchGitHubResponse
    ctxDone,          \* ctx.Err() != nil
    clock,            \* time.Since(startedAt) of backoff.Retry
    currentInterval,  \* ExponentialBackOff.currentInterval
    opErr,            \* error returned by the last run of op
    res,              \* response returned by the last run of op (NoRes = nil)
    timerDur,         \* duration handed to Timer.Start
    results,          \* local variable results of do
    retEvent,         \* returned ghEvent
    retErr,           \* returned error
    attempts,         \* runs of op so far (numTries), counted up to MaxCount
    requests,         \* calls of cli.Client.Do so far, counted up to MaxCount
    sleeps,           \* waits entered so far, counted up to MaxCount
    unclosed,         \* response bodies obtained and not closed, up to MaxCount
    decodes,          \* runs of the decoder so far
    firstStatus,      \* status code of the first response, 0 if none
    resp,             \* the response cli.Client.Do returned in the current attempt
    Client,           \* client.Client
    arg,              \* the url the call was given
    target,           \* the url the last request of the call was built with, "" if none
    pc2,              \* position of a second call on the same client: idle, op, done
    arg2,             \* the url the second call was given
    target2           \* the url the last request of the second call was built with

vars == <<url, Token, Method, pc, viaFetch, ctxDone, clock, currentInterval,
          opErr, res, timerDur, results, retEvent, retErr, attempts, requests,
          sleeps, unclosed, decodes, firstStatus, resp, Client, arg, target,
          pc2, arg2, target2>>

-----------------------------------------------------------------------------
(* Bounds of the model *)

\* the counters attempts, requests, sleeps and unclosed stop counting here
MaxCount == 2

-----------------------------------------------------------------------------
(* Constants of the program and of the default retry policy *)

Second == 1000
ClientTimeout == 10 * Second
InitialInterval == 500
MaxInterval == 60 * Second
MaxElapsedTime == 900 * Second
StatusTooManyRequests == 429

Min(a, b) == IF a < b THEN a ELSE b
Max(a, b) == IF a > b THEN a ELSE b
Count(n) == Min(n + 1, MaxCount)

-----------------------------------------------------------------------------
(* Inputs *)

URLs == {"https://api.github.com/users/a/events", "://bad"}

\* http.NewRequestWithContext fails on a URL that does not parse
ValidURL(u) == u # "://bad"

StatusCodes == {200, 304, 399, 400, 404, 428, 429, 430, 499, 500, 503}

\* values of res.Header.Get("Retry-After"); <<>> is a missing header
RetryAfterHeaders ==
    { <<>>, <<"0">>, <<"3", "0">>, <<"-", "1">>, <<"+", "5">>, <<"3", "0", "0">>,
      <<"9", "0", "1">>, <<"a">>, <<"2", "s">>, <<"-">> }

Bodies == {"valid", "mistyped", "truncated", "invalid"}

\* the time one HTTP round trip takes: up to the timeout of the client
AttemptDurations == {ClientTimeout \div 2, ClientTimeout}

-----------------------------------------------------------------------------
(* Errors and responses *)

NoErr == [kind |-> "nil", permanent |-> FALSE, prefixes |-> <<>>, status |-> 0, delay |-> 0]
NoRes == [status |-> 0, header |-> <<>>, body |-> "none"]

NewError(k) == [kind |-> k, permanent |-> FALSE, prefixes |-> <<>>, status |-> 0, delay |-> 0]

\* fmt.Errorf(prefix + ": %w", e)
Wrap(prefix, e) == [e EXCEPT !.prefixes = <<prefix>> \o @]

\* fmt.Errorf(prefix + ": %q", res.Status)
StatusError(prefix, s) == [NewError("status") EXCEPT !.prefixes = <<prefix>>, !.status = s]

\* backoff.Permanent(e)
Permanent(e) == [e EXCEPT !.permanent = TRUE]

\* a RetryAfter that never takes less than one second
RetryAfterAtLeastOne(seconds) ==
    [NewError("retry_after") EXCEPT !.delay = (IF seconds < 1 THEN 1 ELSE seconds) * Second]

\* backoff.RetryAfter(seconds)
RetryAfter(seconds) == [NewError("retry_after") EXCEPT !.delay = seconds * Second]

\* context.Cause(ctx)
Canceled == NewError("canceled")

\* a construction error that op hands to Retry without backoff.Permanent
RequestErrorRetried == Wrap("request error", NewError("construct"))

\* op: http.NewRequestWithContext failed
RequestError == Permanent(Wrap("request error", NewError("construct")))

\* a transport error that op hands to Retry without backoff.Permanent
TransportErrorRetried == Wrap("request error", NewError("transport"))

\* op: cli.Client.Do failed
TransportError == Permanent(Wrap("request error", NewError("transport")))

-----------------------------------------------------------------------------
(* Pure functions *)

DigitValue ==
    ("0" :> 0) @@ ("1" :> 1) @@ ("2" :> 2) @@ ("3" :> 3) @@ ("4" :> 4) @@
    ("5" :> 5) @@ ("6" :> 6) @@ ("7" :> 7) @@ ("8" :> 8) @@ ("9" :> 9)

RECURSIVE ParseDigits(_, _)
\* value of a digit string read left to right, -1 if a character is no digit
ParseDigits(s, acc) ==
    IF s = <<>> THEN acc
    ELSE IF Head(s) \notin DOMAIN DigitValue THEN -1
    ELSE ParseDigits(Tail(s), acc * 10 + DigitValue[Head(s)])

\* strconv.ParseInt(s, 10, 64): optional sign, then at least one digit
ParseInt(s) ==
    LET signed == s # <<>> /\ Head(s) \in {"+", "-"}
        digits == IF signed THEN Tail(s) ELSE s
        n      == ParseDigits(digits, 0)
    IN  IF digits = <<>> \/ n < 0
        THEN [ok |-> FALSE, val |-> 0]
        ELSE [ok |-> TRUE, val |-> IF signed /\ Head(s) = "-" THEN 0 - n ELSE n]

\* the switch of op with a status >= 500 returned without backoff.Permanent
Classify5xxRetried(r) ==
    IF r.status >= 500
    THEN [res |-> NoRes, err |-> StatusError("GitHub API server error", r.status)]
    ELSE IF r.status = StatusTooManyRequests
    THEN IF ParseInt(r.header).ok
         THEN [res |-> NoRes, err |-> RetryAfter(ParseInt(r.header).val)]
         ELSE [res |-> r, err |-> NoErr]
    ELSE IF r.status >= 400
    THEN [res |-> NoRes, err |-> Permanent(StatusError("GitHub API client error", r.status))]
    ELSE [res |-> r, err |-> NoErr]

\* the switch of op with "> 400" in place of ">= 400"
ClassifyAbove400(r) ==
    IF r.status >= 500
    THEN [res |-> NoRes, err |-> Permanent(StatusError("GitHub API server error", r.status))]
    ELSE IF r.status = StatusTooManyRequests
    THEN IF ParseInt(r.header).ok
         THEN [res |-> NoRes, err |-> RetryAfter(ParseInt(r.header).val)]
         ELSE [res |-> r, err |-> NoErr]
    ELSE IF r.status > 400
    THEN [res |-> NoRes, err |-> Permanent(StatusError("GitHub API client error", r.status))]
    ELSE [res |-> r, err |-> NoErr]

\* the switch of op with the case ">= 400" placed before the case "== 429"
ClassifyClientFirst(r) ==
    IF r.status >= 500
    THEN [res |-> NoRes, err |-> Permanent(StatusError("GitHub API server error", r.status))]
    ELSE IF r.status >= 400
    THEN [res |-> NoRes, err |-> Permanent(StatusError("GitHub API client error", r.status))]
    ELSE IF r.status = StatusTooManyRequests
    THEN IF ParseInt(r.header).ok
         THEN [res |-> NoRes, err |-> RetryAfter(ParseInt(r.header).val)]
         ELSE [res |-> r, err |-> NoErr]
    ELSE [res |-> r, err |-> NoErr]

\* the switch of op on a response r: what op returns
Classify(r) ==
    IF r.status >= 500
    THEN [res |-> NoRes, err |-> Permanent(StatusError("GitHub API server error", r.status))]
    ELSE IF r.status = StatusTooManyRequests
    THEN IF ParseInt(r.header).ok
         THEN [res |-> NoRes, err |-> RetryAfter(ParseInt(r.header).val)]
         ELSE [res |-> r, err |-> NoErr]
    ELSE IF r.status >= 400
    THEN [res |-> NoRes, err |-> Permanent(StatusError("GitHub API client error", r.status))]
    ELSE [res |-> r, err |-> NoErr]

\* ExponentialBackOff.NextBackOff: the values the randomized interval can take
\* (RandomizationFactor 0.5: the two ends of the range and its middle)
NextBackOff(cur) == {cur - cur \div 2, cur, cur + cur \div 2}

\* ExponentialBackOff.incrementCurrentInterval (Multiplier 1.5)
IncrementCurrentInterval(cur) ==
    IF 2 * cur >= 3 * MaxInterval THEN MaxInterval ELSE Min((cur * 3) \div 2, MaxInterval)

\* a decoder whose error is dropped
DecodeLenient(body) ==
    CASE body = "valid"    -> [results |-> "full",    ok |-> TRUE]
      [] body = "mistyped" -> [results |-> "partial", ok |-> TRUE]
      [] OTHER             -> [results |-> "zero",    ok |-> TRUE]

\* json.NewDecoder(res.Body).Decode(&results): the value left in results and
\* whether an error is returned
Decode(body) ==
    CASE body = "valid"    -> [results |-> "full",    ok |-> TRUE]
      [] body = "mistyped" -> [results |-> "partial", ok |-> FALSE]
      [] OTHER             -> [results |-> "zero",    ok |-> FALSE]

-----------------------------------------------------------------------------
(* State *)

Init ==
    /\ url = ""
    /\ Token \in {"t0k3n"}
    /\ Method = "GET"
    /\ pc = "idle"
    /\ viaFetch = FALSE
    /\ ctxDone = FALSE
    /\ clock = 0
    /\ currentInterval = InitialInterval
    /\ opErr = NoErr
    /\ res = NoRes
    /\ timerDur = 0
    /\ results = "zero"
    /\ retEvent = "zero"
    /\ retErr = NoErr
    /\ attempts = 0
    /\ requests = 0
    /\ sleeps = 0
    /\ unclosed = 0
    /\ decodes = 0
    /\ firstStatus = 0
    /\ resp = NoRes
    /\ Client = [Timeout |-> ClientTimeout]
    /\ arg = ""
    /\ target = ""
    /\ pc2 = "idle"
    /\ arg2 = ""
    /\ target2 = ""

\* do returns (ev, err); fetchGitHubResponse hands the pair on and its
\* deferred cancel() runs
Return(ev, err) ==
    /\ pc' = "done"
    /\ retEvent' = ev
    /\ retErr' = err
    /\ ctxDone' = (viaFetch \/ ctxDone)

\* fetchGitHubResponse calling cancel() at once, not deferred
fetchGitHubResponseCancelsEarly(u) ==
    /\ pc = "idle"
    /\ url' = u
    /\ viaFetch' = TRUE
    /\ ctxDone' = TRUE
    /\ clock' = 0
    /\ currentInterval' = InitialInterval
    /\ pc' = "op"
    /\ UNCHANGED <<Token, Method, opErr, res, timerDur, results, retEvent, retErr,
                   attempts, requests, sleeps, unclosed, decodes, firstStatus,
                   resp>>
    /\ arg' = u
    /\ UNCHANGED <<Client, target, pc2, arg2, target2>>

\* fetchGitHubResponse(hc, u) up to the first run of op: setURL, a fresh
\* context, and the start of backoff.Retry
fetchGitHubResponse(u) ==
    /\ pc = "idle"
    /\ url' = u
    /\ viaFetch' = TRUE
    /\ ctxDone' = FALSE
    /\ clock' = 0
    /\ currentInterval' = InitialInterval
    /\ pc' = "op"
    /\ UNCHANGED <<Token, Method, opErr, res, timerDur, results, retEvent, retErr,
                   attempts, requests, sleeps, unclosed, decodes, firstStatus,
                   resp>>
    /\ arg' = u
    /\ UNCHANGED <<Client, target, pc2, arg2, target2>>

\* setURL(u) and do(ctx) called with a context of the caller, which the
\* caller may cancel at any time, also before the call
do(u, cancelled) ==
    /\ pc = "idle"
    /\ url' = u
    /\ viaFetch' = FALSE
    /\ ctxDone' = cancelled
    /\ clock' = 0
    /\ currentInterval' = InitialInterval
    /\ pc' = "op"
    /\ UNCHANGED <<Token, Method, opErr, res, timerDur, results, retEvent, retErr,
                   attempts, requests, sleeps, unclosed, decodes, firstStatus,
                   resp>>
    /\ arg' = u
    /\ UNCHANGED <<Client, target, pc2, arg2, target2>>

\* the caller cancels the context it passed to do
Cancel ==
    /\ pc \in {"op", "retry", "wait", "decode"}
    /\ ~viaFetch
    /\ ~ctxDone
    /\ ctxDone' = TRUE
    /\ UNCHANGED <<url, Token, Method, pc, viaFetch, clock, currentInterval, opErr,
                   res, timerDur, results, retEvent, retErr, attempts, requests,
                   sleeps, unclosed, decodes, firstStatus, resp>>
    /\ UNCHANGED <<Client, arg, target, pc2, arg2, target2>>

\* op fails to build the request
opRequestError ==
    /\ pc = "op"
    /\ ~ValidURL(url)
    /\ opErr' = RequestError
    /\ res' = NoRes
    /\ attempts' = Count(attempts)
    /\ pc' = "retry"
    /\ UNCHANGED <<url, Token, Method, viaFetch, ctxDone, clock, currentInterval,
                   timerDur, results, retEvent, retErr, requests, sleeps, unclosed,
                   decodes, firstStatus, resp>>
    /\ UNCHANGED <<Client, arg, target, pc2, arg2, target2>>

\* op storing a client without timeout in hc.Client
opTransportErrorStoresClient(d) ==
    /\ pc = "op"
    /\ ValidURL(url)
    /\ opErr' = TransportError
    /\ res' = NoRes
    /\ attempts' = Count(attempts)
    /\ requests' = Count(requests)
    /\ clock' = clock + d
    /\ pc' = "retry"
    /\ UNCHANGED <<url, Token, Method, viaFetch, ctxDone, currentInterval,
                   timerDur, results, retEvent, retErr, sleeps, unclosed,
                   decodes, firstStatus, resp>>
    /\ target' = url
    /\ Client' = [Timeout |-> 0]
    /\ UNCHANGED <<arg, pc2, arg2, target2>>

\* cli.Client.Do(req) returns an error: the transport fails, the client's
\* timeout passes or the context is cancelled
opTransportError(d) ==
    /\ pc = "op"
    /\ ValidURL(url)
    /\ opErr' = TransportError
    /\ res' = NoRes
    /\ attempts' = Count(attempts)
    /\ requests' = Count(requests)
    /\ clock' = clock + d
    /\ pc' = "retry"
    /\ UNCHANGED <<url, Token, Method, viaFetch, ctxDone, currentInterval,
                   timerDur, results, retEvent, retErr, sleeps, unclosed,
                   decodes, firstStatus, resp>>
    /\ target' = url
    /\ UNCHANGED <<Client, arg, pc2, arg2, target2>>

\* cli.Client.Do(req) returns the response r after d and op classifies it
opResponse(r, d) ==
    /\ pc = "op"
    /\ ValidURL(url)
    /\ ~ctxDone
    /\ opErr' = Classify(r).err
    /\ res' = Classify(r).res
    /\ attempts' = Count(attempts)
    /\ requests' = Count(requests)
    /\ unclosed' = Count(unclosed)
    /\ firstStatus' = IF requests = 0 THEN r.status ELSE firstStatus
    /\ resp' = r
    /\ clock' = clock + d
    /\ pc' = "retry"
    /\ UNCHANGED <<url, Token, Method, viaFetch, ctxDone, currentInterval,
                   timerDur, results, retEvent, retErr, sleeps, decodes>>
    /\ target' = url
    /\ UNCHANGED <<Client, arg, pc2, arg2, target2>>

-----------------------------------------------------------------------------
(* backoff.Retry after a run of op, and the rest of do *)

\* Retry without the RetryAfterError case: the delay of the schedule
NextDelayScheduled(err, next) == next

\* Retry: "if errors.As(err, &retryAfter) { next = retryAfter.Duration }"
NextDelay(err, next) == IF err.kind = "retry_after" THEN err.delay ELSE next

\* a budget test that leaves out the delay about to be waited
BudgetExceededElapsedOnly(elapsed, next) == elapsed > MaxElapsedTime

\* Retry: "time.Since(startedAt)+next > args.MaxElapsedTime"
BudgetExceeded(elapsed, next) == elapsed + next > MaxElapsedTime

\* Retry: op returned no error; Retry returns res and do goes on to decode
RetrySuccess ==
    /\ pc = "retry"
    /\ opErr = NoErr
    /\ pc' = "decode"
    /\ UNCHANGED <<url, Token, Method, viaFetch, ctxDone, clock, currentInterval,
                   opErr, res, timerDur, results, retEvent, retErr, attempts,
                   requests, sleeps, unclosed, decodes, firstStatus, resp>>
    /\ UNCHANGED <<Client, arg, target, pc2, arg2, target2>>

\* Retry: op returned a permanent error; do wraps and returns it
RetryPermanent ==
    /\ pc = "retry"
    /\ opErr # NoErr
    /\ opErr.permanent
    /\ Return("zero", Wrap("fetch GitHub response", opErr))
    /\ UNCHANGED <<url, Token, Method, viaFetch, clock, currentInterval, opErr, res,
                   timerDur, results, attempts, requests, sleeps, unclosed, decodes,
                   firstStatus, resp>>
    /\ UNCHANGED <<Client, arg, target, pc2, arg2, target2>>

\* Retry: op returned a retryable error and the context is done
RetryCancelled ==
    /\ pc = "retry"
    /\ opErr # NoErr
    /\ ~opErr.permanent
    /\ ctxDone
    /\ Return("zero", Wrap("fetch GitHub response", Canceled))
    /\ UNCHANGED <<url, Token, Method, viaFetch, clock, currentInterval, opErr, res,
                   timerDur, results, attempts, requests, sleeps, unclosed, decodes,
                   firstStatus, resp>>
    /\ UNCHANGED <<Client, arg, target, pc2, arg2, target2>>

\* Retry: op returned a retryable error: compute the delay, give up when it
\* does not fit the elapsed-time budget, start the timer otherwise
RetryBackOff ==
    /\ pc = "retry"
    /\ opErr # NoErr
    /\ ~opErr.permanent
    /\ ~ctxDone
    /\ \E n \in NextBackOff(currentInterval) :
         LET next == NextDelay(opErr, n)
         IN  /\ currentInterval' = IF opErr.kind = "retry_after"
                                   THEN InitialInterval
                                   ELSE IncrementCurrentInterval(currentInterval)
             /\ IF BudgetExceeded(clock, next)
                THEN /\ Return("zero", Wrap("fetch GitHub response", opErr))
                     /\ UNCHANGED <<timerDur, sleeps>>
                ELSE /\ timerDur' = next
                     /\ sleeps' = Count(sleeps)
                     /\ pc' = "wait"
                     /\ UNCHANGED <<retEvent, retErr, ctxDone>>
    /\ UNCHANGED <<url, Token, Method, viaFetch, clock, opErr, res, results,
                   attempts, requests, unclosed, decodes, firstStatus, resp>>
    /\ UNCHANGED <<Client, arg, target, pc2, arg2, target2>>

\* Retry: "case <-args.Timer.C()": the timer fires and the loop runs op again.
\* A timer started with a duration <= 0 is ready at once, so that select may
\* take this case although the context is done as well.
WaitTimer ==
    /\ pc = "wait"
    /\ ~ctxDone \/ timerDur <= 0
    /\ clock' = clock + Max(0, timerDur)
    /\ timerDur' = 0
    /\ resp' = NoRes
    /\ pc' = "op"
    /\ UNCHANGED <<url, Token, Method, viaFetch, ctxDone, currentInterval, opErr,
                   res, results, retEvent, retErr, attempts, requests,
                   sleeps, unclosed, decodes, firstStatus>>
    /\ UNCHANGED <<Client, arg, target, pc2, arg2, target2>>

\* a wait that sleeps the whole delay and does not watch the context
WaitCtxIgnored(p) ==
    /\ pc = "wait"
    /\ ctxDone
    /\ clock' = clock + Max(0, timerDur)
    /\ timerDur' = 0
    /\ resp' = NoRes
    /\ pc' = "op"
    /\ UNCHANGED <<url, Token, Method, viaFetch, ctxDone, currentInterval, opErr,
                   res, results, retEvent, retErr, attempts, requests,
                   sleeps, unclosed, decodes, firstStatus>>
    /\ UNCHANGED <<Client, arg, target, pc2, arg2, target2>>

\* Retry: "case <-ctx.Done()": the context is cancelled p into the wait
WaitCtx(p) ==
    /\ pc = "wait"
    /\ ctxDone
    /\ clock' = clock + p
    /\ resp' = resp
    /\ Return("zero", Wrap("fetch GitHub response", Canceled))
    /\ UNCHANGED <<url, Token, Method, viaFetch, currentInterval, opErr, res,
                   timerDur, results, attempts, requests, sleeps, unclosed, decodes,
                   firstStatus>>
    /\ UNCHANGED <<Client, arg, target, pc2, arg2, target2>>

\* the points of a wait of duration d at which a cancellation can arrive
CancelPoints(d) == IF d > 0 THEN {0, d \div 2} ELSE {0}

\* do returning results, and not ghEvent{}, with the decode error
DoResultPartial(d) ==
    IF d.ok
    THEN [event |-> d.results, err |-> NoErr]
    ELSE [event |-> d.results, err |-> Wrap("decode response", NewError("decode"))]

\* do: what it returns after the decoder left d
DoResult(d) ==
    IF d.ok
    THEN [event |-> d.results, err |-> NoErr]
    ELSE [event |-> "zero", err |-> Wrap("decode response", NewError("decode"))]

\* do after Retry returned a response: decode its body, close it (deferred)
\* and return. Reading the body of a request whose context is done can fail.
decode(readable) ==
    /\ pc = "decode"
    /\ readable \/ ctxDone
    /\ LET d == IF readable THEN Decode(res.body) ELSE [results |-> "zero", ok |-> FALSE]
       IN  /\ results' = d.results
           /\ Return(DoResult(d).event, DoResult(d).err)
    /\ decodes' = decodes + 1
    /\ unclosed' = unclosed - 1
    /\ UNCHANGED <<url, Token, Method, viaFetch, clock, currentInterval, opErr, res,
                   timerDur, attempts, requests, sleeps, firstStatus, resp>>
    /\ UNCHANGED <<Client, arg, target, pc2, arg2, target2>>

\* the responses of the server: a Retry-After header comes with status 429,
\* and the body varies where the code can come to read it
Responses ==
    [status : {c \in StatusCodes : c < 400}, header : {<<>>}, body : Bodies]
    \cup [status : {c \in StatusCodes : c >= 400 /\ c # StatusTooManyRequests},
          header : {<<>>}, body : {"invalid"}]
    \cup [status : {StatusTooManyRequests},
          header : {h \in RetryAfterHeaders : ParseInt(h).ok}, body : {"invalid"}]
    \cup [status : {StatusTooManyRequests},
          header : {h \in RetryAfterHeaders : ~ParseInt(h).ok}, body : Bodies]

Next ==
    \/ \E u \in URLs : fetchGitHubResponse(u)
    \/ \E u \in URLs, c \in BOOLEAN : do(u, c)
    \/ Cancel
    \/ opRequestError
    \/ \E d \in AttemptDurations : opTransportError(d)
    \/ \E r \in Responses, d \in AttemptDurations : opResponse(r, d)
    \/ RetrySuccess
    \/ RetryPermanent
    \/ RetryCancelled
    \/ RetryBackOff
    \/ WaitTimer
    \/ \E p \in CancelPoints(timerDur) : WaitCtx(p)
    \/ \E b \in BOOLEAN : decode(b)

Spec == Init /\ [][Next]_vars

\* the goroutine running do is scheduled, the server answers or the client's
\* timeout passes, and a started timer fires
Step ==
    \/ opRequestError
    \/ \E d \in AttemptDurations : opTransportError(d)
    \/ \E r \in Responses, d \in AttemptDurations : opResponse(r, d)
    \/ RetrySuccess
    \/ RetryPermanent
    \/ RetryCancelled
    \/ RetryBackOff
    \/ WaitTimer
    \/ \E p \in CancelPoints(timerDur) : WaitCtx(p)
    \/ \E b \in BOOLEAN : decode(b)

LiveSpec == Init /\ [][Next]_vars /\ WF_vars(Step)

-----------------------------------------------------------------------------
(* Two calls of fetchGitHubResponse on one client *)

\* the urls two concurrent calls are given
ConcURLs == URLs \cup {"https://api.github.com/users/b/events"}

\* the responses the first call gets while a second call runs
ConcResponses ==
    {r \in Responses : /\ r.status \in {200, StatusTooManyRequests, 500}
                       /\ r.header \in {<<>>, <<"3", "0", "0">>}
                       /\ r.body \in {"valid", "invalid"}}

\* a second goroutine calls fetchGitHubResponse(hc, u) on the same client:
\* its setURL writes hc.url without synchronization
concurrentFetch(u) ==
    /\ pc2 = "idle"
    /\ url' = u
    /\ arg2' = u
    /\ pc2' = "op"
    /\ UNCHANGED <<Token, Method, pc, viaFetch, ctxDone, clock, currentInterval,
                   opErr, res, timerDur, results, retEvent, retErr, attempts,
                   requests, sleeps, unclosed, decodes, firstStatus, resp, Client,
                   arg, target, target2>>

\* op of the second call cannot build a request from hc.url: the call ends
concurrentOpRequestError ==
    /\ pc2 = "op"
    /\ ~ValidURL(url)
    /\ pc2' = "done"
    /\ UNCHANGED <<url, Token, Method, pc, viaFetch, ctxDone, clock, currentInterval,
                   opErr, res, timerDur, results, retEvent, retErr, attempts,
                   requests, sleeps, unclosed, decodes, firstStatus, resp, Client,
                   arg, target, arg2, target2>>

\* op of the second call builds its request from hc.url and sends it; the
\* outcome is rate-limited (again) or ends the call
concurrentOp(again) ==
    /\ pc2 = "op"
    /\ ValidURL(url)
    /\ target2' = url
    /\ pc2' = IF again THEN "op" ELSE "done"
    /\ UNCHANGED <<url, Token, Method, pc, viaFetch, ctxDone, clock, currentInterval,
                   opErr, res, timerDur, results, retEvent, retErr, attempts,
                   requests, sleeps, unclosed, decodes, firstStatus, resp, Client,
                   arg, target, arg2>>

ConcNext ==
    \/ \E u \in ConcURLs : fetchGitHubResponse(u)
    \/ \E u \in ConcURLs : concurrentFetch(u)
    \/ concurrentOpRequestError
    \/ \E again \in BOOLEAN : concurrentOp(again)
    \/ opRequestError
    \/ \E d \in AttemptDurations : opTransportError(d)
    \/ \E r \in ConcResponses, d \in AttemptDurations : opResponse(r, d)
    \/ RetrySuccess
    \/ RetryPermanent
    \/ RetryBackOff
    \/ WaitTimer
    \/ decode(TRUE)

ConcSpec == Init /\ [][ConcNext]_vars

-----------------------------------------------------------------------------
(* Properties *)

Running == pc \in {"op", "retry", "wait", "decode"}
ClientErrorCodes == (400 .. 499) \ {StatusTooManyRequests}
Unparsed429(r) == r.status = StatusTooManyRequests /\ ~ParseInt(r.header).ok
Parsed429(r) == r.status = StatusTooManyRequests /\ ParseInt(r.header).ok

\* C1: when the first attempt gets a status >= 500, one HTTP attempt is made,
\* the executor never sleeps, and the call returns the permanent server error
C1_ServerErrorFatal ==
    firstStatus >= 500 =>
        /\ requests = 1
        /\ attempts = 1
        /\ sleeps = 0
        /\ pc \notin {"wait", "decode"}
        /\ pc = "done" =>
             /\ retErr # NoErr
             /\ opErr.permanent
             /\ retErr.kind = "status"
             /\ retErr.status = firstStatus
             /\ retEvent = "zero"

C1_Witness == pc = "done" /\ firstStatus >= 500 /\ retErr.status = firstStatus

\* C2: a 429 response whose Retry-After header is missing or not a number is
\* never returned by op as a success: it does not reach the decoder and the
\* call does not return an event with a nil error from it
C2_Unparsed429NotSuccess ==
    Unparsed429(resp) =>
        /\ res = NoRes
        /\ pc # "decode"
        /\ ~(pc = "done" /\ retErr = NoErr)

\* C3: when the call has returned, every response body it obtained is closed
C3_BodiesClosed == pc = "done" => unclosed = 0

\* C4: while the executor waits after a 429 response whose Retry-After header
\* parses as N, the delay it waits for is N seconds, whatever the number of
\* the attempt and the interval of the exponential schedule
C4_RateLimitDelay ==
    (pc = "wait" /\ Parsed429(resp)) => timerDur = ParseInt(resp.header).val * Second

C4_Witness ==
    /\ pc = "wait"
    /\ Parsed429(resp)
    /\ attempts >= 2
    /\ timerDur = 30 * Second
    /\ timerDur \notin NextBackOff(InitialInterval)

\* C5: when the first attempt gets a 4xx status other than 429, one HTTP
\* attempt is made and the call returns the permanent client error that
\* carries the status
C5_ClientErrorFatal ==
    firstStatus \in ClientErrorCodes =>
        /\ requests = 1
        /\ attempts = 1
        /\ sleeps = 0
        /\ pc \notin {"wait", "decode"}
        /\ pc = "done" =>
             /\ opErr.permanent
             /\ retErr.kind = "status"
             /\ retErr.status = firstStatus
             /\ retErr.prefixes = <<"fetch GitHub response", "GitHub API client error">>

C5_Witness == pc = "done" /\ firstStatus = 400 /\ retErr.status = 400

\* C6: a call ends with a decoded event and a nil error, or with the zero
\* event and an error; an event the decoder filled in part is never returned
\* with an error
C6_TerminalPair ==
    pc = "done" =>
        \/ retErr = NoErr /\ retEvent = "full" /\ decodes = 1
        \/ retErr # NoErr /\ retEvent = "zero"

C6_Witness == pc = "done" /\ results = "partial" /\ retErr.kind = "decode"

\* C7: when the first attempt gets a status below 400 whose body is no
\* well-formed event, the call returns the decode error after that one attempt
\* and without a sleep; no step out of the decoder runs op or starts a wait
C7_DecodeErrorNotRetried ==
    /\ [](firstStatus \in 1 .. 399 =>
            /\ requests = 1
            /\ attempts = 1
            /\ sleeps = 0
            /\ pc # "wait"
            /\ (pc = "done" /\ resp.body # "valid") =>
                 /\ retErr.kind = "decode"
                 /\ retErr.prefixes = <<"decode response">>
                 /\ decodes = 1)
    /\ [][pc = "decode" =>
            /\ pc' \in {"decode", "done"}
            /\ attempts' = attempts
            /\ requests' = requests
            /\ sleeps' = sleeps]_vars

C7_Witness ==
    /\ pc = "done"
    /\ firstStatus = 200
    /\ resp.body = "truncated"
    /\ retErr.kind = "decode"
    /\ requests = 1

\* C8: a call that keeps getting retryable outcomes ends: every started call
\* returns, and when it returns because the delay no longer fits the budget the
\* error wraps the last failure of op; the time elapsed in attempts and in
\* rate-limit waits counts against the budget, so no wait is started that
\* would end after it
C8_RetryExhausted ==
    /\ Running ~> pc = "done"
    /\ [](pc = "wait" => clock + timerDur <= MaxElapsedTime)
    /\ [](pc = "done" /\ retErr.kind = "retry_after" =>
            /\ retErr = Wrap("fetch GitHub response", opErr)
            /\ opErr = RetryAfter(ParseInt(resp.header).val)
            /\ Parsed429(resp)
            /\ clock + retErr.delay > MaxElapsedTime)

C8_Witness ==
    /\ pc = "done"
    /\ retErr.kind = "retry_after"
    /\ sleeps >= 2
    /\ retErr.delay <= 0
    /\ clock > MaxElapsedTime

\* C9: when the context is cancelled while the executor waits on a delay that
\* has not passed, the next step of the call returns the cancellation error
\* before the delay has passed, and op is not run again
C9_CancelDuringWait ==
    [][(pc = "wait" /\ ctxDone /\ timerDur > 0) =>
          /\ pc' = "done"
          /\ retErr' = Wrap("fetch GitHub response", Canceled)
          /\ retEvent' = "zero"
          /\ clock' - clock < timerDur
          /\ attempts' = attempts
          /\ requests' = requests]_vars

C9_Witness ==
    /\ pc = "done"
    /\ retErr.kind = "canceled"
    /\ timerDur > 0
    /\ sleeps >= 1

\* C10: an error of building the request or of the transport is permanent:
\* the step of Retry that follows it returns it, wrapped, without a wait and
\* without another run of op
C10_RequestErrorFatal ==
    /\ [](opErr.kind \in {"construct", "transport"} =>
            /\ opErr.permanent
            /\ pc \in {"retry", "done"}
            /\ pc = "done" => retErr = Wrap("fetch GitHub response", opErr))
    /\ [][(pc = "retry" /\ opErr.kind \in {"construct", "transport"}) =>
            /\ pc' \in {"retry", "done"}
            /\ attempts' = attempts
            /\ requests' = requests
            /\ sleeps' = sleeps
            /\ clock' = clock]_vars

C10_Witness ==
    /\ pc = "done"
    /\ retErr.kind = "transport"
    /\ retErr.prefixes = <<"fetch GitHub response", "request error">>
    /\ attempts >= 2

\* C11: every request of a call is built with the url that call was given,
\* also while another call runs on the same client
C11_AttemptsUseOwnURL ==
    /\ target # "" => target = arg
    /\ target2 # "" => target2 = arg2


Stages == {"construct", "transport", "decode", "retry_after"}

\* the prefixes the code puts before an error of a stage
StagePrefixes(stage) ==
    CASE stage = "construct"   -> Wrap("fetch GitHub response", RequestError).prefixes
      [] stage = "transport"   -> Wrap("fetch GitHub response", TransportError).prefixes
      [] stage = "decode"      -> DoResult([results |-> "zero", ok |-> FALSE]).err.prefixes
      [] stage = "retry_after" -> Wrap("fetch GitHub response", RetryAfter(0)).prefixes

\* C12: every returned error carries a prefix, and the prefixes of an error of
\* one of the stages request construction, transport, decode and retry
\* exhaustion are not the prefixes of another of these stages
C12_StagePrefixes ==
    (pc = "done" /\ retErr # NoErr) =>
        /\ retErr.prefixes # <<>>
        /\ retErr.kind \in Stages =>
             \A t \in Stages \ {retErr.kind} : retErr.prefixes # StagePrefixes(t)


\* C13: the decoder runs at most once in a call and only on a response whose
\* status is below 400; when the first attempt gets such a status, one attempt
\* is made and the executor does not sleep
C13_DecoderOnlyOnSuccess ==
    /\ decodes <= 1
    /\ (pc = "decode" \/ decodes >= 1) => resp.status \in 1 .. 399
    /\ firstStatus \in 1 .. 399 => (requests = 1 /\ sleeps = 0 /\ pc # "wait")

\* the four outcomes, read off the pair (res, err) that op returns
IsSuccess(e, r) == e = NoErr /\ r # NoRes
IsFatalFailure(e, r) == e # NoErr /\ e.permanent /\ r = NoRes
IsRateLimited(e, r) == e # NoErr /\ ~e.permanent /\ e.kind = "retry_after" /\ r = NoRes
IsTransientFailure(e, r) == e # NoErr /\ ~e.permanent /\ e.kind # "retry_after" /\ r = NoRes

Outcomes(e, r) ==
    {o \in {"Success", "FatalFailure", "RateLimited", "TransientFailure"} :
        \/ o = "Success" /\ IsSuccess(e, r)
        \/ o = "FatalFailure" /\ IsFatalFailure(e, r)
        \/ o = "RateLimited" /\ IsRateLimited(e, r)
        \/ o = "TransientFailure" /\ IsTransientFailure(e, r)}

\* C14: after every run of op its result is exactly one of the four outcomes:
\* FatalFailure for an error of construction or transport and for a status
\* >= 500, else RateLimited with the parsed delay for a 429 whose header
\* parses, else FatalFailure for a status >= 400 other than 429, else Success
\* with the response for a status below 400
C14_ClassifierTotal ==
    pc = "retry" =>
        /\ Cardinality(Outcomes(opErr, res)) = 1
        /\ opErr.kind \in {"construct", "transport"} => IsFatalFailure(opErr, res)
        /\ resp # NoRes =>
             IF resp.status >= 500
             THEN IsFatalFailure(opErr, res) /\ opErr.status = resp.status
             ELSE IF Parsed429(resp)
             THEN IsRateLimited(opErr, res)
                  /\ opErr.delay = ParseInt(resp.header).val * Second
             ELSE IF Unparsed429(resp)
             THEN TRUE
             ELSE IF resp.status >= 400
             THEN IsFatalFailure(opErr, res) /\ opErr.status = resp.status
             ELSE IsSuccess(opErr, res) /\ res = resp

C14_Witness ==
    /\ pc = "retry"
    /\ attempts >= 2
    /\ resp.status = StatusTooManyRequests
    /\ resp.header = <<"+", "5">>
    /\ Outcomes(opErr, res) = {"RateLimited"}


\* C15: no step of a call changes Token, Method or Client of the client; url
\* is written only by the step that starts the call, before the first run of
\* op, and holds the url of the call from then on
C15_ClientFrame ==
    /\ [][/\ Token' = Token
          /\ Method' = Method
          /\ Client' = Client
          /\ url' # url => (pc = "idle" /\ attempts = 0 /\ url' = arg')]_vars
    /\ [](pc # "idle" => url = arg)

C15_Witness ==
    /\ pc = "done"
    /\ attempts >= 2
    /\ url = arg
    /\ url # ""
    /\ Token = "t0k3n"
    /\ Method = "GET"
    /\ Client = [Timeout |-> ClientTimeout]

C17_PositiveSleep == pc = "wait" => timerDur > 0

\* C17: the delay of a wait after a 429 is greater than zero exactly when the
\* integer of the Retry-After header is; with a header of zero or less the
\* wait takes no time and op runs again at once
C17_DelayFollowsHeader ==
    /\ []((pc = "wait" /\ Parsed429(resp)) =>
            (timerDur > 0 <=> ParseInt(resp.header).val > 0))
    /\ [][(pc = "wait" /\ pc' = "op" /\ timerDur <= 0) => clock' = clock]_vars

C17_Witness ==
    /\ pc = "wait"
    /\ Parsed429(resp)
    /\ ParseInt(resp.header).val <= 0
    /\ timerDur <= 0
    /\ sleeps >= 2

\* C18: in a call through fetchGitHubResponse the context is done only when
\* the call has returned: the call never returns the cancellation error and
\* every wait runs to its end
C18_FetchNeverCancelled ==
    /\ [](viaFetch =>
            /\ ctxDone => pc = "done"
            /\ pc = "done" => retErr.kind # "canceled")
    /\ [][(viaFetch /\ pc = "wait") =>
            /\ pc' = "op"
            /\ clock' = clock + Max(0, timerDur)]_vars

C18_Witness ==
    /\ viaFetch
    /\ pc = "done"
    /\ ctxDone
    /\ sleeps >= 1

====
